---- MODULE Spec2Model ----
(***************************************************************************)
(* level_2_pass_manager (qiskit/transpiler/preset_passmanagers/level2.py): *)
(* the assembly of the optimization-level-2 staged pass manager from a     *)
(* PassManagerConfig and the stage-plugin registry.  One call of the       *)
(* function is one behaviour: Init draws the configuration and the         *)
(* registry content, every action is one statement (group) of the function *)
(* body, in program order.                                                 *)
(***************************************************************************)
EXTENDS Integers, Sequences, FiniteSets, TLC

VARIABLES pass_manager_config, registry, pc, routing_pm, unroll_3q, layout,
          routing, translation, pre_optimization, optimization, sched, init,
          result, calls

vars == <<pass_manager_config, registry, pc, routing_pm, unroll_3q, layout,
          routing, translation, pre_optimization, optimization, sched, init,
          result, calls>>

(***************************************************************************)
(* Bounds and value domains.                                               *)
(***************************************************************************)
\* At most this many (stage kind, method name) pairs are missing from the registry.
MaxUnregistered == 2

\* Python's None, for the optional string-valued fields of the configuration.
None == "None"

\* The absence marker of a stage slot (layout = None) and a present stage:
\* a stage value is the ordered sequence of its passes.
Absent == [present |-> FALSE]
Stage(passes) == [present |-> TRUE, passes |-> passes]

StageKinds == {"routing", "layout", "translation", "optimization", "scheduling", "init"}

\* Method names a configuration may select, besides leaving the selection unset.
MethodNames == {None, "custom"}

DefaultOf(kind) ==
    CASE kind = "layout" -> "default"
      [] kind = "routing" -> "sabre"
      [] kind = "translation" -> "translator"
      [] kind = "optimization" -> "default"
      [] kind = "scheduling" -> "default"

\* Every (stage kind, method name) pair a call can ask the registry for.
AllPairs ==
    {<<k, n>> : k \in StageKinds \ {"init"}, n \in {"custom"}}
    \cup {<<k, DefaultOf(k)>> : k \in StageKinds \ {"init"}}
    \cup {<<"init", "custom">>}

Registries ==
    {AllPairs \ m : m \in {s \in SUBSET AllPairs : Cardinality(s) <= MaxUnregistered}}

CouplingMaps == {None, "symmetric_map", "directed_map"}
InitialLayouts == {None, "user_layout"}
Targets == {None, "symmetric_target", "directional_target"}

Configs ==
    [basis_gates : {None, "basis"},
     coupling_map : CouplingMaps,
     initial_layout : InitialLayouts,
     init_method : MethodNames,
     layout_method : MethodNames,
     routing_method : MethodNames,
     translation_method : MethodNames,
     optimization_method : MethodNames,
     scheduling_method : MethodNames,
     approximation_degree : {"degree"},
     unitary_synthesis_method : {"synthesis"},
     unitary_synthesis_plugin_config : {"synthesis_options"},
     target : Targets,
     hls_config : {"hls"}]

(***************************************************************************)
(* External collaborators: the coupling map, the target, the plugin        *)
(* registry and the factories of `common`.                                 *)
(***************************************************************************)
\* Truth value of an optional object: None is false, an object is true.
Truthy(x) == x # None

\* CouplingMap.is_symmetric
is_symmetric(coupling_map) == coupling_map = "symmetric_map"

\* Target.get_non_global_operation_names(strict_direction=True)
get_non_global_operation_names(target) ==
    IF target = "directional_target" THEN {"cx"} ELSE {}

\* PassManagerStagePluginManager.get_passmanager_stage: does the lookup succeed,
\* and the stage it produces.
IsRegistered(reg, kind, name) == <<kind, name>> \in reg

get_passmanager_stage(kind, name, config, optimization_level) ==
    Stage(<<[factory |-> "plugin",
             args |-> [stage_name |-> kind, plugin_name |-> name,
                       pm_config |-> config,
                       optimization_level |-> optimization_level]]>>)

\* The error of a lookup for a pair with no entry.
ResolutionError(kind, name) ==
    [status |-> "raised", error |-> "ResolutionError", kind |-> kind, name |-> name]

\* common.generate_unroll_3q
generate_unroll_3q(target, basis_gates, approximation_degree, unitary_synthesis_method, unitary_synthesis_plugin_config, hls_config) ==
    Stage(<<[factory |-> "generate_unroll_3q",
             args |-> [target |-> target, basis_gates |-> basis_gates,
                       approximation_degree |-> approximation_degree,
                       unitary_synthesis_method |-> unitary_synthesis_method,
                       unitary_synthesis_plugin_config |->
                           unitary_synthesis_plugin_config,
                       hls_config |-> hls_config]]>>)

\* common.generate_pre_op_passmanager, with the parameters of
\* preOptimizationDefaults(target?, connectivityGraph?, fixDirection, removeZeroResets)
generate_pre_op_passmanager(target, coupling_map, fix_direction, remove_reset_in_zero) ==
    Stage(<<[factory |-> "generate_pre_op_passmanager",
             args |-> [target |-> target, coupling_map |-> coupling_map,
                       fix_direction |-> fix_direction,
                       remove_reset_in_zero |-> remove_reset_in_zero]]>>)

\* common.generate_control_flow_options_check, called with keywords only:
\* the stage records exactly the keywords it was given.
generate_control_flow_options_check(kwargs) ==
    Stage(<<[factory |-> "generate_control_flow_options_check", args |-> kwargs]>>)

\* PassManager.__iadd__: the passes of the right operand follow those of the left.
Plus(left, right) == Stage(left.passes \o right.passes)

(***************************************************************************)
(* Locals computed from the configuration (level2.py lines 51-64).         *)
(***************************************************************************)
\* x or default
OrDefault(x, default) == IF x # None THEN x ELSE default

basis_gates == pass_manager_config.basis_gates
coupling_map == pass_manager_config.coupling_map
initial_layout == pass_manager_config.initial_layout
init_method == pass_manager_config.init_method
layout_method == OrDefault(pass_manager_config.layout_method, "default")
routing_method == OrDefault(pass_manager_config.routing_method, "sabre")
translation_method_WrongDefault ==
    OrDefault(pass_manager_config.translation_method, "default")
translation_method == OrDefault(pass_manager_config.translation_method, "translator")
optimization_method == OrDefault(pass_manager_config.optimization_method, "default")
scheduling_method == OrDefault(pass_manager_config.scheduling_method, "default")
approximation_degree == pass_manager_config.approximation_degree
unitary_synthesis_method == pass_manager_config.unitary_synthesis_method
unitary_synthesis_plugin_config == pass_manager_config.unitary_synthesis_plugin_config
target == pass_manager_config.target
hls_config == pass_manager_config.hls_config

\* The entries of the call log.
LookupCall(kind, name) == [call |-> "get_passmanager_stage", kind |-> kind, name |-> name]
FactoryCall(fn) == [call |-> fn, kind |-> "-", name |-> "-"]

(***************************************************************************)
(* The function body.                                                      *)
(***************************************************************************)
Init ==
    /\ pass_manager_config \in Configs
    /\ registry \in Registries
    /\ pc = "routing_pm"
    /\ routing_pm = Absent
    /\ unroll_3q = Absent
    /\ layout = Absent
    /\ routing = Absent
    /\ translation = Absent
    /\ pre_optimization = Absent
    /\ optimization = Absent
    /\ sched = Absent
    /\ init = Absent
    /\ result = [status |-> "running"]
    /\ calls = <<>>

\* A lookup that finds no entry ends the call with the error.
Raise(kind, name) ==
    /\ result' = ResolutionError(kind, name)
    /\ pc' = "done"

\* Variant of lines 66-69: a routing method with no entry is only noticed later.
LookupRouting_Deferred ==
    /\ pc = "routing_pm"
    /\ calls' = Append(calls, LookupCall("routing", routing_method))
    /\ routing_pm' = IF IsRegistered(registry, "routing", routing_method)
                     THEN get_passmanager_stage("routing", routing_method,
                                                pass_manager_config, 2)
                     ELSE Absent
    /\ pc' = "branch"
    /\ UNCHANGED <<pass_manager_config, registry, unroll_3q, layout, routing,
                   translation, pre_optimization, optimization, sched, init,
                   result>>

\* lines 66-69: routing_pm = plugin_manager.get_passmanager_stage("routing", ...)
LookupRouting ==
    /\ pc = "routing_pm"
    /\ calls' = Append(calls, LookupCall("routing", routing_method))
    /\ IF IsRegistered(registry, "routing", routing_method)
       THEN /\ routing_pm' = get_passmanager_stage("routing", routing_method,
                                                   pass_manager_config, 2)
            /\ pc' = "branch"
            /\ UNCHANGED result
       ELSE /\ Raise("routing", routing_method)
            /\ UNCHANGED routing_pm
    /\ UNCHANGED <<pass_manager_config, registry, unroll_3q, layout, routing,
                   translation, pre_optimization, optimization, sched, init>>

\* Variants of the branch condition of line 73.
MappingNeeded_Always(cm, il) == TRUE
MappingNeeded_PlacementOnly(cm, il) == Truthy(il)

\* line 73: if coupling_map or initial_layout
MappingNeeded(cm, il) == Truthy(cm) \/ Truthy(il)

\* lines 73-81: unroll_3q = common.generate_unroll_3q(...)
BuildUnroll3q ==
    /\ pc = "branch"
    /\ MappingNeeded(coupling_map, initial_layout)
    /\ unroll_3q' = generate_unroll_3q(target, basis_gates, approximation_degree,
                                       unitary_synthesis_method,
                                       unitary_synthesis_plugin_config, hls_config)
    /\ calls' = Append(calls, FactoryCall("generate_unroll_3q"))
    /\ pc' = "layout"
    /\ UNCHANGED <<pass_manager_config, registry, routing_pm, layout, routing,
                   translation, pre_optimization, optimization, sched, init, result>>

\* Variant of lines 82-85: a layout method with no entry leaves the slot absent.
LookupLayout_Lenient ==
    /\ pc = "layout"
    /\ calls' = Append(calls, LookupCall("layout", layout_method))
    /\ layout' = IF IsRegistered(registry, "layout", layout_method)
                 THEN get_passmanager_stage("layout", layout_method,
                                            pass_manager_config, 2)
                 ELSE Absent
    /\ routing' = routing_pm
    /\ pc' = "translation"
    /\ UNCHANGED <<pass_manager_config, registry, routing_pm, unroll_3q,
                   translation, pre_optimization, optimization, sched, init,
                   result>>

\* lines 82-85: layout = plugin_manager.get_passmanager_stage("layout", ...);
\* routing = routing_pm
LookupLayout ==
    /\ pc = "layout"
    /\ calls' = Append(calls, LookupCall("layout", layout_method))
    /\ IF IsRegistered(registry, "layout", layout_method)
       THEN /\ layout' = get_passmanager_stage("layout", layout_method,
                                               pass_manager_config, 2)
            /\ routing' = routing_pm
            /\ pc' = "translation"
            /\ UNCHANGED result
       ELSE /\ Raise("layout", layout_method)
            /\ UNCHANGED <<layout, routing>>
    /\ UNCHANGED <<pass_manager_config, registry, routing_pm, unroll_3q,
                   translation, pre_optimization, optimization, sched, init>>

\* Variant of lines 86-88: the routing stage resolved first is kept.
NoMapping_KeepsRouting ==
    /\ pc = "branch"
    /\ ~MappingNeeded(coupling_map, initial_layout)
    /\ layout' = Absent
    /\ routing' = routing_pm
    /\ pc' = "translation"
    /\ UNCHANGED <<pass_manager_config, registry, routing_pm, unroll_3q,
                   translation, pre_optimization, optimization, sched, init,
                   result, calls>>

\* lines 86-88: else: layout = None; routing = None
NoMapping ==
    /\ pc = "branch"
    /\ ~MappingNeeded(coupling_map, initial_layout)
    /\ layout' = Absent
    /\ routing' = Absent
    /\ pc' = "translation"
    /\ UNCHANGED <<pass_manager_config, registry, routing_pm, unroll_3q,
                   translation, pre_optimization, optimization, sched, init,
                   result, calls>>

\* lines 89-91: translation = plugin_manager.get_passmanager_stage("translation", ...)
LookupTranslation ==
    /\ pc = "translation"
    /\ calls' = Append(calls, LookupCall("translation", translation_method))
    /\ IF IsRegistered(registry, "translation", translation_method)
       THEN /\ translation' = get_passmanager_stage("translation", translation_method,
                                                    pass_manager_config, 2)
            /\ pc' = "pre_optimization"
            /\ UNCHANGED result
       ELSE /\ Raise("translation", translation_method)
            /\ UNCHANGED translation
    /\ UNCHANGED <<pass_manager_config, registry, routing_pm, unroll_3q, layout,
                   routing, pre_optimization, optimization, sched, init>>

\* Variants of the condition of lines 93-95.
Asymmetric_GraphOnly(cm, tgt) == Truthy(cm) /\ ~is_symmetric(cm)
Asymmetric_TargetFirst(cm, tgt) ==
    IF tgt # None
    THEN get_non_global_operation_names(tgt) # {}
    ELSE Truthy(cm) /\ ~is_symmetric(cm)

\* lines 93-95: the condition of the pre_optimization branch
Asymmetric(cm, tgt) ==
    \/ (Truthy(cm) /\ ~is_symmetric(cm))
    \/ (tgt # None /\ get_non_global_operation_names(tgt) # {})

\* lines 93-98: pre_optimization = common.generate_pre_op_passmanager(...)
BuildPreOptimization ==
    /\ pc = "pre_optimization"
    /\ IF Asymmetric(coupling_map, target)
       THEN pre_optimization' =
                generate_pre_op_passmanager(target, coupling_map, TRUE, FALSE)
       ELSE pre_optimization' =
                generate_pre_op_passmanager(None, None, FALSE, TRUE)
    /\ calls' = Append(calls, FactoryCall("generate_pre_op_passmanager"))
    /\ pc' = "optimization"
    /\ UNCHANGED <<pass_manager_config, registry, routing_pm, unroll_3q, layout,
                   routing, translation, optimization, sched, init, result>>

\* lines 100-102: optimization = plugin_manager.get_passmanager_stage("optimization", ...)
LookupOptimization ==
    /\ pc = "optimization"
    /\ calls' = Append(calls, LookupCall("optimization", optimization_method))
    /\ IF IsRegistered(registry, "optimization", optimization_method)
       THEN /\ optimization' = get_passmanager_stage("optimization",
                                                     optimization_method,
                                                     pass_manager_config, 2)
            /\ pc' = "sched"
            /\ UNCHANGED result
       ELSE /\ Raise("optimization", optimization_method)
            /\ UNCHANGED optimization
    /\ UNCHANGED <<pass_manager_config, registry, routing_pm, unroll_3q, layout,
                   routing, translation, pre_optimization, sched, init>>

\* lines 104-106: sched = plugin_manager.get_passmanager_stage("scheduling", ...)
LookupScheduling ==
    /\ pc = "sched"
    /\ calls' = Append(calls, LookupCall("scheduling", scheduling_method))
    /\ IF IsRegistered(registry, "scheduling", scheduling_method)
       THEN /\ sched' = get_passmanager_stage("scheduling", scheduling_method,
                                              pass_manager_config, 2)
            /\ pc' = "init"
            /\ UNCHANGED result
       ELSE /\ Raise("scheduling", scheduling_method)
            /\ UNCHANGED sched
    /\ UNCHANGED <<pass_manager_config, registry, routing_pm, unroll_3q, layout,
                   routing, translation, pre_optimization, optimization, init>>

\* Variant of lines 108-116: the configured names are passed unresolved.
ControlFlowKwargs_Unresolved ==
    [layout_method |-> pass_manager_config.layout_method,
     routing_method |-> pass_manager_config.routing_method,
     translation_method |-> pass_manager_config.translation_method,
     optimization_method |-> pass_manager_config.optimization_method,
     scheduling_method |-> pass_manager_config.scheduling_method,
     basis_gates |-> basis_gates,
     target |-> target]

\* lines 108-116: the keywords given to common.generate_control_flow_options_check
ControlFlowKwargs ==
    [layout_method |-> layout_method,
     routing_method |-> routing_method,
     translation_method |-> translation_method,
     optimization_method |-> optimization_method,
     scheduling_method |-> scheduling_method,
     basis_gates |-> basis_gates,
     target |-> target]

\* lines 108-116: init = common.generate_control_flow_options_check(...)
BuildInit ==
    /\ pc = "init"
    /\ init' = generate_control_flow_options_check(ControlFlowKwargs)
    /\ calls' = Append(calls, FactoryCall("generate_control_flow_options_check"))
    /\ pc' = "init_append"
    /\ UNCHANGED <<pass_manager_config, registry, routing_pm, unroll_3q, layout,
                   routing, translation, pre_optimization, optimization, sched,
                   result>>

\* Variant of lines 117-122: the reduction stage is appended as well.
AppendInitMethod_AndUnroll ==
    /\ pc = "init_append"
    /\ init_method # None
    /\ calls' = Append(calls, LookupCall("init", init_method))
    /\ IF IsRegistered(registry, "init", init_method)
       THEN /\ init' = IF unroll_3q # Absent
                       THEN Plus(Plus(init, get_passmanager_stage(
                                     "init", init_method, pass_manager_config, 2)),
                                 unroll_3q)
                       ELSE Plus(init, get_passmanager_stage(
                                     "init", init_method, pass_manager_config, 2))
            /\ pc' = "return"
            /\ UNCHANGED result
       ELSE /\ Raise("init", init_method)
            /\ UNCHANGED init
    /\ UNCHANGED <<pass_manager_config, registry, routing_pm, unroll_3q, layout,
                   routing, translation, pre_optimization, optimization, sched>>

\* lines 117-120: if init_method is not None: init += get_passmanager_stage("init", ...)
AppendInitMethod ==
    /\ pc = "init_append"
    /\ init_method # None
    /\ calls' = Append(calls, LookupCall("init", init_method))
    /\ IF IsRegistered(registry, "init", init_method)
       THEN /\ init' = Plus(init, get_passmanager_stage("init", init_method,
                                                        pass_manager_config, 2))
            /\ pc' = "return"
            /\ UNCHANGED result
       ELSE /\ Raise("init", init_method)
            /\ UNCHANGED init
    /\ UNCHANGED <<pass_manager_config, registry, routing_pm, unroll_3q, layout,
                   routing, translation, pre_optimization, optimization, sched>>

\* lines 121-122: elif unroll_3q is not None: init += unroll_3q
AppendUnroll3q ==
    /\ pc = "init_append"
    /\ init_method = None
    /\ unroll_3q # Absent
    /\ init' = Plus(init, unroll_3q)
    /\ pc' = "return"
    /\ UNCHANGED <<pass_manager_config, registry, routing_pm, unroll_3q, layout,
                   routing, translation, pre_optimization, optimization, sched,
                   result, calls>>

\* lines 117-122, neither branch taken: init stays the validation stage
AppendNothing ==
    /\ pc = "init_append"
    /\ init_method = None
    /\ unroll_3q = Absent
    /\ pc' = "return"
    /\ UNCHANGED <<pass_manager_config, registry, routing_pm, unroll_3q, layout,
                   routing, translation, pre_optimization, optimization, sched,
                   init, result, calls>>

\* lines 124-132: return StagedPassManager(init=init, layout=layout, ...)
StagedPassManager ==
    [init |-> init,
     layout |-> layout,
     routing |-> routing,
     translation |-> translation,
     pre_optimization |-> pre_optimization,
     optimization |-> optimization,
     scheduling |-> sched]

Return ==
    /\ pc = "return"
    /\ result' = [status |-> "returned", pipeline |-> StagedPassManager]
    /\ pc' = "done"
    /\ UNCHANGED <<pass_manager_config, registry, routing_pm, unroll_3q, layout,
                   routing, translation, pre_optimization, optimization, sched,
                   init, calls>>

Next ==
    \/ LookupRouting
    \/ BuildUnroll3q
    \/ LookupLayout
    \/ NoMapping
    \/ LookupTranslation
    \/ BuildPreOptimization
    \/ LookupOptimization
    \/ LookupScheduling
    \/ BuildInit
    \/ AppendInitMethod
    \/ AppendUnroll3q
    \/ AppendNothing
    \/ Return

Spec == Init /\ [][Next]_vars


(***************************************************************************)
(* Vocabulary of the properties.                                           *)
(***************************************************************************)
Returned == pc = "done" /\ result.status = "returned"
Raised == pc = "done" /\ result.status = "raised"

\* The method name a call asks the registry for, per stage kind, written
\* from the configuration record.
Requested(kind) ==
    CASE kind = "routing" ->
           IF pass_manager_config.routing_method # None
           THEN pass_manager_config.routing_method ELSE "sabre"
      [] kind = "layout" ->
           IF pass_manager_config.layout_method # None
           THEN pass_manager_config.layout_method ELSE "default"
      [] kind = "translation" ->
           IF pass_manager_config.translation_method # None
           THEN pass_manager_config.translation_method ELSE "translator"
      [] kind = "optimization" ->
           IF pass_manager_config.optimization_method # None
           THEN pass_manager_config.optimization_method ELSE "default"
      [] kind = "scheduling" ->
           IF pass_manager_config.scheduling_method # None
           THEN pass_manager_config.scheduling_method ELSE "default"
      [] kind = "init" -> pass_manager_config.init_method

\* The stage the registry holds for the requested name of a kind.
Resolved(kind) ==
    get_passmanager_stage(kind, Requested(kind), pass_manager_config, 2)

\* The validation stage and the wide-operation reduction stage of the configuration.
ValidationStage ==
    generate_control_flow_options_check(
        [layout_method |-> Requested("layout"),
         routing_method |-> Requested("routing"),
         translation_method |-> Requested("translation"),
         optimization_method |-> Requested("optimization"),
         scheduling_method |-> Requested("scheduling"),
         basis_gates |-> pass_manager_config.basis_gates,
         target |-> pass_manager_config.target])

ReductionStage ==
    generate_unroll_3q(pass_manager_config.target,
                       pass_manager_config.basis_gates,
                       pass_manager_config.approximation_degree,
                       pass_manager_config.unitary_synthesis_method,
                       pass_manager_config.unitary_synthesis_plugin_config,
                       pass_manager_config.hls_config)

GraphPresent == pass_manager_config.coupling_map # None
PlacementPresent == pass_manager_config.initial_layout # None
InitSupplied == pass_manager_config.init_method # None

(***************************************************************************)
(* Properties of the returned pipeline.                                    *)
(***************************************************************************)
\* C1: a call that returns for a configuration with neither a coupling map nor
\* an initial layout returns a pipeline whose layout and routing slots are the
\* absence marker; if no init method is supplied either, its init slot is the
\* validation stage alone.
C1_NoMappingSlotsAbsent ==
    (Returned /\ ~GraphPresent /\ ~PlacementPresent) =>
        /\ result.pipeline.layout = Absent
        /\ result.pipeline.routing = Absent
        /\ ~InitSupplied =>
              /\ result.pipeline.init = ValidationStage
              /\ Len(result.pipeline.init.passes) = 1

C1_Witness ==
    /\ Returned /\ ~GraphPresent /\ ~PlacementPresent /\ ~InitSupplied
    /\ result.pipeline.layout = Absent
    /\ routing_pm # Absent

\* C2: a call that returns for a configuration with a coupling map returns a
\* pipeline whose layout slot is the registry's layout stage and whose routing
\* slot is the routing stage resolved first; with no init method, its init slot
\* is the validation stage followed by exactly the wide-operation reduction
\* stage built from the configuration.
C2_GraphSlotsPresent ==
    (Returned /\ GraphPresent) =>
        /\ result.pipeline.layout = Resolved("layout")
        /\ result.pipeline.routing = Resolved("routing")
        /\ result.pipeline.routing = routing_pm
        /\ ~InitSupplied =>
              /\ result.pipeline.init = Plus(ValidationStage, ReductionStage)
              /\ Len(result.pipeline.init.passes) = 2

C2_Witness ==
    /\ Returned /\ GraphPresent /\ ~InitSupplied
    /\ result.pipeline.layout.present
    /\ result.pipeline.init.passes[2].factory = "generate_unroll_3q"

\* C3: a call that returns for a configuration with an init method returns a
\* pipeline whose init slot is the validation stage followed by exactly the
\* registry's init stage for that name, mapping needed or not; the reduction
\* stage is not in it.
C3_InitMethodAppended ==
    (Returned /\ InitSupplied) =>
        /\ result.pipeline.init = Plus(ValidationStage, Resolved("init"))
        /\ Len(result.pipeline.init.passes) = 2
        /\ \A i \in 1..Len(result.pipeline.init.passes) :
               result.pipeline.init.passes[i].factory # "generate_unroll_3q"

C3_Witness ==
    /\ Returned /\ InitSupplied /\ GraphPresent
    /\ unroll_3q # Absent
    /\ result.pipeline.init.passes[2].factory = "plugin"

\* The asymmetry of a configuration: its coupling map is present and not
\* symmetric, or its target is present and reports a directional operation.
GraphAsymmetric ==
    /\ pass_manager_config.coupling_map # None
    /\ ~is_symmetric(pass_manager_config.coupling_map)
TargetDirectional ==
    /\ pass_manager_config.target # None
    /\ get_non_global_operation_names(pass_manager_config.target) # {}

PreOptArgs == pre_optimization.passes[1].args

\* C4: once built, the pre_optimization stage has direction fixing enabled and
\* is bound to the configuration's target and coupling map when the coupling
\* map is asymmetric or the target is directional (either alone); otherwise it
\* has only zero-state reset removal enabled and neither target nor coupling map.
C4_PreOptimizationChoice ==
    pre_optimization # Absent =>
        /\ Len(pre_optimization.passes) = 1
        /\ pre_optimization.passes[1].factory = "generate_pre_op_passmanager"
        /\ IF GraphAsymmetric \/ TargetDirectional
           THEN /\ PreOptArgs.fix_direction
                /\ PreOptArgs.target = pass_manager_config.target
                /\ PreOptArgs.coupling_map = pass_manager_config.coupling_map
           ELSE PreOptArgs = [target |-> None, coupling_map |-> None,
                              fix_direction |-> FALSE,
                              remove_reset_in_zero |-> TRUE]

C4_Witness ==
    /\ Returned
    /\ ~GraphAsymmetric /\ TargetDirectional
    /\ result.pipeline.pre_optimization.passes[1].args.fix_direction

(***************************************************************************)
(* Failure of a lookup.                                                    *)
(***************************************************************************)
Unregistered(kind) == ~IsRegistered(registry, kind, Requested(kind))

\* The stage kinds a configuration names a method for: the five with a default
\* always, init when an init method is supplied.
KindsRequested ==
    (StageKinds \ {"init"}) \cup (IF InitSupplied THEN {"init"} ELSE {})

\* The stage kinds a call has to look up: layout only when mapping is needed.
KindsLookedUp ==
    KindsRequested \ (IF GraphPresent \/ PlacementPresent THEN {} ELSE {"layout"})

LazyLookups(config) ==
    (IF config.coupling_map # None \/ config.initial_layout # None
     THEN <<"routing", "layout">> ELSE <<>>)
    \o <<"translation", "optimization", "scheduling">>
    \o (IF config.init_method # None THEN <<"init">> ELSE <<>>)

NameFor(config, kind) ==
    CASE kind = "routing" -> OrDefault(config.routing_method, "sabre")
      [] kind = "layout" -> OrDefault(config.layout_method, "default")
      [] kind = "translation" -> OrDefault(config.translation_method, "translator")
      [] kind = "optimization" -> OrDefault(config.optimization_method, "default")
      [] kind = "scheduling" -> OrDefault(config.scheduling_method, "default")
      [] kind = "init" -> config.init_method

LazyPipeline(config) ==
    LET mapping == config.coupling_map # None \/ config.initial_layout # None
        stage(kind) == get_passmanager_stage(kind, NameFor(config, kind), config, 2)
        check == generate_control_flow_options_check(
                     [layout_method |-> NameFor(config, "layout"),
                      routing_method |-> NameFor(config, "routing"),
                      translation_method |-> NameFor(config, "translation"),
                      optimization_method |-> NameFor(config, "optimization"),
                      scheduling_method |-> NameFor(config, "scheduling"),
                      basis_gates |-> config.basis_gates,
                      target |-> config.target])
        reduction == generate_unroll_3q(config.target, config.basis_gates,
                         config.approximation_degree,
                         config.unitary_synthesis_method,
                         config.unitary_synthesis_plugin_config,
                         config.hls_config)
    IN [init |-> IF config.init_method # None THEN Plus(check, stage("init"))
                 ELSE IF mapping THEN Plus(check, reduction)
                 ELSE check,
        layout |-> IF mapping THEN stage("layout") ELSE Absent,
        routing |-> IF mapping THEN stage("routing") ELSE Absent,
        translation |-> stage("translation"),
        pre_optimization |->
            IF Asymmetric(config.coupling_map, config.target)
            THEN generate_pre_op_passmanager(config.target, config.coupling_map,
                                             TRUE, FALSE)
            ELSE generate_pre_op_passmanager(None, None, FALSE, TRUE),
        optimization |-> stage("optimization"),
        scheduling |-> stage("scheduling")]

LazyAssemble(config, reg) ==
    LET order == LazyLookups(config)
        failing == {i \in 1..Len(order) :
                        ~IsRegistered(reg, order[i], NameFor(config, order[i]))}
    IN IF failing = {}
       THEN [status |-> "returned", pipeline |-> LazyPipeline(config)]
       ELSE LET first == CHOOSE i \in failing : \A j \in failing : i <= j
            IN ResolutionError(order[first], NameFor(config, order[first]))

TargetPresent == pass_manager_config.target # None
DirectionFixing == pre_optimization.passes[1].args.fix_direction

\* C7 as stated: with a target present, direction fixing is chosen exactly
\* when the target reports a directional operation, whatever the coupling map.
C7_TargetAloneDecides ==
    (pre_optimization # Absent /\ TargetPresent) =>
        (DirectionFixing <=> TargetDirectional)

\* C7 amended: the coupling map is consulted whether or not a target is
\* present.  With a target that reports a directional operation, direction
\* fixing is chosen whatever the coupling map; with a target that reports
\* none, direction fixing is chosen exactly when the coupling map is present
\* and not symmetric.
C7_TargetAndGraphDecide ==
    (pre_optimization # Absent /\ TargetPresent) =>
        /\ TargetDirectional => DirectionFixing
        /\ ~TargetDirectional =>
              (DirectionFixing <=>
                  pass_manager_config.coupling_map = "directed_map")

C7_Witness ==
    /\ Returned
    /\ TargetPresent /\ ~TargetDirectional
    /\ pass_manager_config.coupling_map = "directed_map"
    /\ result.pipeline.pre_optimization.passes[1].args.fix_direction
    /\ result.pipeline.pre_optimization.passes[1].args.target = "symmetric_target"

(***************************************************************************)
(* The validation stage.                                                   *)
(***************************************************************************)
ValidationArgs == init.passes[1].args

\* C8 as stated: the validation stage is built with all six method names,
\* the init method among them.
C8_SixMethodNames ==
    init # Absent =>
        /\ init.passes[1].factory = "generate_control_flow_options_check"
        /\ "init_method" \in DOMAIN ValidationArgs

\* C8 amended: the validation stage that starts the init slot is built with
\* five method names (layout, routing, translation, optimization, scheduling),
\* each the resolved value, with the basis gates and the target; the init
\* method is not passed to it.
C8_FiveMethodNames ==
    init # Absent =>
        /\ init.passes[1].factory = "generate_control_flow_options_check"
        /\ DOMAIN ValidationArgs =
               {"layout_method", "routing_method", "translation_method",
                "optimization_method", "scheduling_method", "basis_gates", "target"}
        /\ ValidationArgs.layout_method = Requested("layout")
        /\ ValidationArgs.routing_method = Requested("routing")
        /\ ValidationArgs.translation_method = Requested("translation")
        /\ ValidationArgs.optimization_method = Requested("optimization")
        /\ ValidationArgs.scheduling_method = Requested("scheduling")
        /\ ValidationArgs.basis_gates = pass_manager_config.basis_gates
        /\ ValidationArgs.target = pass_manager_config.target

C8_Witness ==
    /\ Returned
    /\ InitSupplied
    /\ pass_manager_config.layout_method = None
    /\ pass_manager_config.routing_method = "custom"
    /\ result.pipeline.init.passes[1].args.layout_method = "default"
    /\ result.pipeline.init.passes[1].args.routing_method = "custom"

(***************************************************************************)
(* Names and order of the registry lookups.                                *)
(***************************************************************************)
IsLookup(c) == c.call = "get_passmanager_stage"
LookedUp(kind) == \E i \in 1..Len(calls) : IsLookup(calls[i]) /\ calls[i].kind = kind

\* C9: every lookup asks for the configured method name when one is set and
\* for the default of its stage kind otherwise (sabre, default, translator,
\* default, default); init is looked up only when an init method is supplied;
\* a call that returns has looked up translation, optimization and scheduling,
\* whatever the configuration, and its three slots hold the stages found.
C9_LookupNames ==
    /\ \A i \in 1..Len(calls) :
          IsLookup(calls[i]) =>
             /\ calls[i].kind \in KindsRequested
             /\ calls[i].name = Requested(calls[i].kind)
             /\ calls[i].name # None
    /\ Returned =>
          /\ \A k \in {"translation", "optimization", "scheduling"} : LookedUp(k)
          /\ result.pipeline.translation = Resolved("translation")
          /\ result.pipeline.optimization = Resolved("optimization")
          /\ result.pipeline.scheduling = Resolved("scheduling")

C9_Witness ==
    /\ Returned
    /\ ~GraphPresent /\ ~PlacementPresent /\ ~InitSupplied
    /\ pass_manager_config.translation_method = None
    /\ pass_manager_config.scheduling_method = "custom"
    /\ result.pipeline.translation.passes[1].args.plugin_name = "translator"
    /\ result.pipeline.scheduling.passes[1].args.plugin_name = "custom"
    /\ ~LookedUp("init") /\ ~LookedUp("layout")

\* The lookups of a call that meets no failure, in program order.
ExpectedLookups ==
    <<"routing">>
    \o (IF GraphPresent \/ PlacementPresent THEN <<"layout">> ELSE <<>>)
    \o <<"translation", "optimization", "scheduling">>
    \o (IF InitSupplied THEN <<"init">> ELSE <<>>)

RECURSIVE LookupKinds(_)
LookupKinds(log) ==
    IF log = <<>> THEN <<>>
    ELSE (IF IsLookup(Head(log)) THEN <<Head(log).kind>> ELSE <<>>)
         \o LookupKinds(Tail(log))

IsPrefix(s, t) == Len(s) <= Len(t) /\ \A i \in 1..Len(s) : s[i] = t[i]

====
